---------------------------- MODULE Spec2Model ----------------------------
(***************************************************************************)
(* Model of the Governor contract (src/contracts/dao/lib.rs) together with *)
(* the part of its environment it reads: the contract's native balance,    *)
(* the block timestamp and the PSP22 governance token ledger.              *)
(*                                                                         *)
(* A message is one atomic step.  A message that panics (arithmetic        *)
(* overflow with overflow checks, division by zero, unwrap of a failed     *)
(* transfer) traps: the result is "Trap" and every storage write of the    *)
(* call is rolled back, as the contracts pallet does for a trapped call.   *)
(*                                                                         *)
(* u64 values (timestamps, durations) are kept at their width as four      *)
(* 16-bit limbs, least significant first, because the model checker's      *)
(* integers are narrower than 64 bits.                                     *)
(***************************************************************************)
EXTENDS Integers, Sequences, FiniteSets, TLC

VARIABLES
    proposals,          \* Mapping<ProposalId, Proposal>
    proposal_votes,     \* Mapping<ProposalId, ProposalVote>
    votes,              \* Mapping<(ProposalId, AccountId), ()> as a set of keys
    next_proposal_id,   \* ProposalId counter
    quorum,             \* u8, fixed by the constructor
    balance,            \* self.env().balance(): native balance of the contract
    now,                \* self.env().block_timestamp(), a u64
    token_balance,      \* PSP22 balances of the governance token, in units
    token_shift,        \* log2 of the unit of token_balance: a u128 amount is
                        \* token_balance[a] * 2^token_shift
    overflow_checks,    \* whether the build panics on integer overflow
    cast,               \* history: weight added by each recorded (id, voter)
    transfers,          \* history: env().transfer calls made for each proposal
    pending,            \* a vote waiting on its token ledger queries, if any
    last                \* the last message call: its arguments and its result

vars == <<proposals, proposal_votes, votes, next_proposal_id, quorum, balance,
          now, token_balance, token_shift, overflow_checks, cast, transfers,
          pending, last>>

-----------------------------------------------------------------------------
(* Bounds of the model *)

MaxProposals == 2       \* proposals stored
MaxTicks == 2           \* block timestamp steps explored

(* Program constants *)

ONE_MINUTE == 60

U8Mod == 2^8            \* for_votes, against_vote and quorum are u8
U128Bits == 128         \* Balance is u128
Base == 2^16            \* limb base of the u64 representation

-----------------------------------------------------------------------------
(* u64 arithmetic on limbs *)

U64(n) == <<n % Base, (n \div Base) % Base, 0, 0>>

\* a + b in u64: the wrapped value and whether the true sum left the range
AddU64(a, b) ==
    LET s1 == a[1] + b[1]
        s2 == a[2] + b[2] + (s1 \div Base)
        s3 == a[3] + b[3] + (s2 \div Base)
        s4 == a[4] + b[4] + (s3 \div Base)
    IN  [value |-> <<s1 % Base, s2 % Base, s3 % Base, s4 % Base>>,
         overflow |-> s4 \div Base > 0]

\* a * k in u64 for a small factor k
MulU64(a, k) ==
    LET p1 == a[1] * k
        p2 == a[2] * k + (p1 \div Base)
        p3 == a[3] * k + (p2 \div Base)
        p4 == a[4] * k + (p3 \div Base)
    IN  [value |-> <<p1 % Base, p2 % Base, p3 % Base, p4 % Base>>,
         overflow |-> p4 \div Base > 0]

\* a > b in u64
GtU64(a, b) ==
    \/ a[4] > b[4]
    \/ a[4] = b[4] /\ a[3] > b[3]
    \/ a[4] = b[4] /\ a[3] = b[3] /\ a[2] > b[2]
    \/ a[4] = b[4] /\ a[3] = b[3] /\ a[2] = b[2] /\ a[1] > b[1]

-----------------------------------------------------------------------------
(* Inputs *)

Accounts == {"alice", "bob", "charlie"}     \* token holders and callers
Voters == {"alice", "bob"}                  \* callers of the lifecycle runs
InitialBalances == {3}                      \* endowment of the constructor
Supplies == {0, 3}                          \* initial_supply of the token
\* units of the token amounts: 1 and 2^120 (a supply of 3 * 2^120 is a u128)
TokenShifts == {0, 120}
Quorums == {0, 50}
TickStep == U64(ONE_MINUTE)
\* 2^62 minutes: 2^62 * 60 = 15 * 2^64 leaves the u64 range
HugeDuration == <<0, 0, 0, 2^14>>
\* (to, amount, duration) of the propose calls explored
ProposeInputs ==
    {<<"django", 0, U64(1)>>, <<"django", 0, U64(0)>>, <<"eve", 3, U64(0)>>,
     <<"eve", 3, U64(1)>>, <<"django", 1, U64(0)>>, <<"django", 1, U64(1)>>,
     <<"eve", 2, U64(1)>>}
LongProposeInputs ==
    ProposeInputs \cup {<<"eve", 1, HugeDuration>>, <<"django", 2, U64(2)>>,
                        <<"eve", 4, U64(0)>>, <<"eve", 0, HugeDuration>>}
ProposalIds == 0 .. MaxProposals            \* includes an id never assigned
VoteTypes == {"Against", "For"}
Timestamps == {MulU64(TickStep, k).value : k \in 0 .. MaxTicks}

Errors == {"AmountShouldNotBeZero", "DurationError", "ProposalNotFound",
           "ProposalAlreadyExecuted", "VotePeriodEnded", "AlreadyVoted",
           "QuorumNotReached", "ProposalNotAccepted", "InsufficientBalance"}

-----------------------------------------------------------------------------
(* Storage of the Governor and the environment a message can change *)

Storage ==
    [proposals |-> proposals, proposal_votes |-> proposal_votes, votes |-> votes,
     next_proposal_id |-> next_proposal_id, balance |-> balance,
     cast |-> cast, transfers |-> transfers]

Err(e) == [result |-> e, st |-> Storage]
Trap == [result |-> "Trap", st |-> Storage]

\* a default tally that already carries a full for-weight
DefaultVoteFull == [for_votes |-> 100, against_vote |-> 0]

\* ProposalVote::default()
DefaultVote == [for_votes |-> 0, against_vote |-> 0]

\* self.proposal_votes.get(proposal_id).unwrap_or_default()
GetVotes(id) ==
    IF id \in DOMAIN proposal_votes THEN proposal_votes[id] ELSE DefaultVote

RECURSIVE SumOver(_, _)
SumOver(f, S) ==
    IF S = {} THEN 0
    ELSE LET x == CHOOSE y \in S : TRUE IN f[x] + SumOver(f, S \ {x})

\* PSP22::total_supply and PSP22::balance_of of the governance token, in the
\* units of token_balance
total_supply == SumOver(token_balance, Accounts)
balance_of(account) == token_balance[account]

-----------------------------------------------------------------------------
(* Governor::propose at block timestamp t *)

\* the checks of propose with the duration tested first
ProposeCheckDurationFirst(amount, duration) ==
    IF duration = U64(0) THEN "DurationError"
    ELSE IF amount = 0 THEN "AmountShouldNotBeZero"
    ELSE IF amount >= balance THEN "InsufficientBalance"
    ELSE "Ok"

\* the precondition checks of propose: an error, or "Ok" when all pass
ProposeCheck(amount, duration) ==
    IF amount = 0 THEN "AmountShouldNotBeZero"
    ELSE IF amount >= balance THEN "InsufficientBalance"
    ELSE IF duration = U64(0) THEN "DurationError"
    ELSE "Ok"

\* the counter left as it was
NextIdStuck(n) == n

\* the counter advanced by two
NextIdSkip(n) == n + 2

\* self.next_proposal_id += 1
NextId(n) == n + 1

ProposeOutcome(t, to, amount, duration) ==
    IF ProposeCheck(amount, duration) # "Ok"
    THEN Err(ProposeCheck(amount, duration))
    ELSE LET prod == MulU64(duration, ONE_MINUTE)
             end == AddU64(t, prod.value)
             proposal == [to |-> to, amount |-> amount, vote_start |-> t,
                          vote_end |-> end.value, executed |-> FALSE]
         IN  IF overflow_checks /\ (prod.overflow \/ end.overflow) THEN Trap
             ELSE [result |-> "Ok",
                   st |-> [Storage EXCEPT
                       !.proposals = (next_proposal_id :> proposal) @@ proposals,
                       !.transfers = (next_proposal_id :> <<>>) @@ transfers,
                       !.next_proposal_id = NextId(next_proposal_id)]]

(* Governor::vote by caller at block timestamp t *)

\* the period test with >= in place of >
PeriodEndedAtEnd(t, proposal) == ~GtU64(proposal.vote_end, t)

\* the period test with its operands exchanged
PeriodEndedSwapped(t, proposal) == GtU64(proposal.vote_end, t)

\* self.now() > proposal.vote_end
PeriodEnded(t, proposal) == GtU64(t, proposal.vote_end)

\* the ledger looked up for the proposal's target in place of the caller
HasVotedTarget(id, caller) == <<id, proposals[id].to>> \in votes

\* self.votes.contains((proposal_id, caller))
HasVoted(id, caller) == <<id, caller>> \in votes

\* whether caller_balance * 100 leaves the u128 range: with a unit of 2^s the
\* product is balance_of(caller) * 100 * 2^s, out of range from 2^128 on
Mul100Overflows(caller) ==
    IF token_shift < 100 THEN FALSE
    ELSE balance_of(caller) * 100 >= 2^(U128Bits - token_shift)

\* caller_balance * 100 in u128, in units: (k * 100 * 2^s) % 2^128 is
\* ((k * 100) % 2^(128 - s)) * 2^s
Mul100(caller) ==
    IF Mul100Overflows(caller)
    THEN (balance_of(caller) * 100) % 2^(U128Bits - token_shift)
    ELSE balance_of(caller) * 100

\* (caller_balance * 100 / total_supply) as u8, for a positive supply; the
\* unit cancels in the quotient
Weight(caller) == (Mul100(caller) \div total_supply) % U8Mod

\* vote with the ledger written before the period is tested
VoteOutcomeEarlyWrite(t, caller, id, vote) ==
    IF id \notin DOMAIN proposals THEN Err("ProposalNotFound")
    ELSE IF proposals[id].executed THEN Err("ProposalAlreadyExecuted")
    ELSE IF <<id, caller>> \in votes THEN Err("AlreadyVoted")
    ELSE IF GtU64(t, proposals[id].vote_end)
    THEN [result |-> "VotePeriodEnded",
          st |-> [Storage EXCEPT !.votes = votes \cup {<<id, caller>>}]]
    ELSE LET weight == ((balance_of(caller) * 100) \div total_supply) % U8Mod
             pv == GetVotes(id)
             new == IF vote = "For"
                    THEN [pv EXCEPT !.for_votes = (@ + weight) % U8Mod]
                    ELSE [pv EXCEPT !.against_vote = (@ + weight) % U8Mod]
         IN  [result |-> "Ok",
              st |-> [Storage EXCEPT
                  !.votes = votes \cup {<<id, caller>>},
                  !.cast = (<<id, caller>> :> weight) @@ cast,
                  !.proposal_votes = (id :> new) @@ proposal_votes]]

\* vote without the test of the executed flag
VoteOutcomeOnExecuted(t, caller, id, vote) ==
    IF id \notin DOMAIN proposals THEN Err("ProposalNotFound")
    ELSE IF PeriodEnded(t, proposals[id]) THEN Err("VotePeriodEnded")
    ELSE IF HasVoted(id, caller) THEN Err("AlreadyVoted")
    ELSE IF total_supply = 0 THEN Trap
    ELSE IF overflow_checks /\ Mul100Overflows(caller) THEN Trap
    ELSE LET weight == Weight(caller)
             pv == GetVotes(id)
             old == IF vote = "For" THEN pv.for_votes ELSE pv.against_vote
             sum == old + weight
             new == IF vote = "For"
                    THEN [pv EXCEPT !.for_votes = sum % U8Mod]
                    ELSE [pv EXCEPT !.against_vote = sum % U8Mod]
         IN  IF overflow_checks /\ sum >= U8Mod THEN Trap
             ELSE [result |-> "Ok",
                   st |-> [Storage EXCEPT
                       !.votes = votes \cup {<<id, caller>>},
                       !.cast = (<<id, caller>> :> weight) @@ cast,
                       !.proposal_votes = (id :> new) @@ proposal_votes]]

VoteOutcome(t, caller, id, vote) ==
    IF id \notin DOMAIN proposals THEN Err("ProposalNotFound")
    ELSE IF proposals[id].executed THEN Err("ProposalAlreadyExecuted")
    ELSE IF PeriodEnded(t, proposals[id]) THEN Err("VotePeriodEnded")
    ELSE IF HasVoted(id, caller) THEN Err("AlreadyVoted")
    ELSE IF total_supply = 0 THEN Trap
    ELSE IF overflow_checks /\ Mul100Overflows(caller) THEN Trap
    ELSE LET weight == Weight(caller)
             pv == GetVotes(id)
             old == IF vote = "For" THEN pv.for_votes ELSE pv.against_vote
             sum == old + weight
             new == IF vote = "For"
                    THEN [pv EXCEPT !.for_votes = sum % U8Mod]
                    ELSE [pv EXCEPT !.against_vote = sum % U8Mod]
         IN  IF overflow_checks /\ sum >= U8Mod THEN Trap
             ELSE [result |-> "Ok",
                   st |-> [Storage EXCEPT
                       !.votes = votes \cup {<<id, caller>>},
                       !.cast = (<<id, caller>> :> weight) @@ cast,
                       !.proposal_votes = (id :> new) @@ proposal_votes]]

(* Governor::vote in two steps, for runs in which other messages are         *)
(* processed while the call waits on its queries to the token ledger        *)

\* vote up to the queries, with the ledger left unwritten
VoteEnterLateWrite(t, caller, id) ==
    IF id \notin DOMAIN proposals THEN Err("ProposalNotFound")
    ELSE IF proposals[id].executed THEN Err("ProposalAlreadyExecuted")
    ELSE IF PeriodEnded(t, proposals[id]) THEN Err("VotePeriodEnded")
    ELSE IF HasVoted(id, caller) THEN Err("AlreadyVoted")
    ELSE [result |-> "Pending", st |-> Storage]

\* vote up to the point where total_supply is queried: the checks and
\* self.votes.insert
VoteEnterOutcome(t, caller, id) ==
    IF id \notin DOMAIN proposals THEN Err("ProposalNotFound")
    ELSE IF proposals[id].executed THEN Err("ProposalAlreadyExecuted")
    ELSE IF PeriodEnded(t, proposals[id]) THEN Err("VotePeriodEnded")
    ELSE IF HasVoted(id, caller) THEN Err("AlreadyVoted")
    ELSE [result |-> "Pending",
          st |-> [Storage EXCEPT !.votes = votes \cup {<<id, caller>>}]]

\* vote from the answers of the queries on: the weight and the tally, read
\* from the storage as it is then; a panic rolls back to the storage the call
\* started from, saved
VoteReturnOutcome(saved, caller, id, vote) ==
    IF total_supply = 0 THEN [result |-> "Trap", st |-> saved]
    ELSE IF overflow_checks /\ Mul100Overflows(caller)
    THEN [result |-> "Trap", st |-> saved]
    ELSE LET weight == Weight(caller)
             pv == GetVotes(id)
             old == IF vote = "For" THEN pv.for_votes ELSE pv.against_vote
             sum == old + weight
             new == IF vote = "For"
                    THEN [pv EXCEPT !.for_votes = sum % U8Mod]
                    ELSE [pv EXCEPT !.against_vote = sum % U8Mod]
         IN  IF overflow_checks /\ sum >= U8Mod
             THEN [result |-> "Trap", st |-> saved]
             ELSE [result |-> "Ok",
                   st |-> [Storage EXCEPT
                       !.cast = (<<id, caller>> :> weight) @@ cast,
                       !.proposal_votes = (id :> new) @@ proposal_votes]]

(* Governor::execute; transfer_ok is whether the environment's transfer     *)
(* primitive succeeds                                                       *)

\* the flag left as it was
MarkExecutedForgotten(proposal) == proposal

\* proposal.executed = true
MarkExecuted(proposal) == [proposal EXCEPT !.executed = TRUE]

\* the balance test with >= in place of >
HasFundsAtLeast(amount) == balance >= amount

\* self.env().balance() > proposal.amount
HasFunds(amount) == balance > amount

\* execute with the flag stored before the transfer and the failure of the
\* transfer not undoing it
ExecuteBodyFlagFirst(id, transfer_ok) ==
    IF id \notin DOMAIN proposals THEN Err("ProposalNotFound")
    ELSE IF proposals[id].executed THEN Err("ProposalAlreadyExecuted")
    ELSE LET pv == GetVotes(id)
             sum == pv.for_votes + pv.against_vote
             p == proposals[id]
         IN  IF overflow_checks /\ sum >= U8Mod THEN Trap
             ELSE IF sum % U8Mod < quorum THEN Err("QuorumNotReached")
             ELSE IF pv.for_votes < pv.against_vote THEN Err("ProposalNotAccepted")
             ELSE IF ~HasFunds(p.amount) THEN Err("InsufficientBalance")
             ELSE IF ~transfer_ok
             THEN [result |-> "Trap",
                   st |-> [Storage EXCEPT !.proposals[id] = MarkExecuted(p)]]
             ELSE [result |-> "Ok",
                   st |-> [Storage EXCEPT
                       !.balance = balance - p.amount,
                       !.transfers[id] = Append(@, <<p.to, p.amount>>),
                       !.proposals[id] = MarkExecuted(p)]]

ExecuteBody(id, transfer_ok) ==
    IF id \notin DOMAIN proposals THEN Err("ProposalNotFound")
    ELSE IF proposals[id].executed THEN Err("ProposalAlreadyExecuted")
    ELSE LET pv == GetVotes(id)
             sum == pv.for_votes + pv.against_vote
             p == proposals[id]
         IN  IF overflow_checks /\ sum >= U8Mod THEN Trap
             ELSE IF sum % U8Mod < quorum THEN Err("QuorumNotReached")
             ELSE IF pv.for_votes < pv.against_vote THEN Err("ProposalNotAccepted")
             ELSE IF ~HasFunds(p.amount) THEN Err("InsufficientBalance")
             ELSE IF ~transfer_ok THEN Trap
             ELSE [result |-> "Ok",
                   st |-> [Storage EXCEPT
                       !.balance = balance - p.amount,
                       !.transfers[id] = Append(@, <<p.to, p.amount>>),
                       !.proposals[id] = MarkExecuted(p)]]

\* execute refused while the voting period is open
ExecuteAfterPeriod(t, id, transfer_ok) ==
    IF /\ id \in DOMAIN proposals
       /\ ~proposals[id].executed
       /\ ~GtU64(t, proposals[id].vote_end)
    THEN Err("ProposalNotAccepted")
    ELSE ExecuteBody(id, transfer_ok)

\* execute in a block whose timestamp is t: the body never reads the clock
ExecuteOutcome(t, id, transfer_ok) == ExecuteBody(id, transfer_ok)

-----------------------------------------------------------------------------
(* The state machine *)

NoCall == [op |-> "none"]

\* Governor::new in a fresh environment; the token's constructor mints the
\* whole supply to its deployer
Init ==
    /\ proposals = <<>>
    /\ proposal_votes = <<>>
    /\ votes = {}
    /\ next_proposal_id = 0
    /\ quorum \in Quorums
    /\ balance \in InitialBalances
    /\ now = U64(0)
    /\ \E s \in Supplies :
           token_balance = [a \in Accounts |-> IF a = "alice" THEN s ELSE 0]
    /\ token_shift \in TokenShifts
    /\ overflow_checks \in BOOLEAN
    /\ cast = <<>>
    /\ transfers = <<>>
    /\ pending = NoCall
    /\ last = NoCall

\* the storage after a call is the storage of its outcome
Write(out) ==
    /\ proposals' = out.st.proposals
    /\ proposal_votes' = out.st.proposal_votes
    /\ votes' = out.st.votes
    /\ next_proposal_id' = out.st.next_proposal_id
    /\ balance' = out.st.balance
    /\ cast' = out.st.cast
    /\ transfers' = out.st.transfers
    /\ UNCHANGED <<quorum, now, token_balance, token_shift, overflow_checks>>

\* a message processed from start to end leaves a waiting vote waiting
Commit(out) == Write(out) /\ UNCHANGED pending

Propose(to, amount, duration) ==
    LET out == ProposeOutcome(now, to, amount, duration) IN
    /\ out.result = "Ok" => next_proposal_id < MaxProposals
    /\ Commit(out)
    /\ last' = [op |-> "propose", to |-> to, amount |-> amount,
                duration |-> duration, result |-> out.result]

Vote(caller, id, vote) ==
    LET out == VoteOutcome(now, caller, id, vote) IN
    /\ Commit(out)
    /\ last' = [op |-> "vote", caller |-> caller, id |-> id, vote |-> vote,
                result |-> out.result]

Execute(id, transfer_ok) ==
    LET out == ExecuteOutcome(now, id, transfer_ok) IN
    /\ Commit(out)
    /\ last' = [op |-> "execute", id |-> id, transfer_ok |-> transfer_ok,
                result |-> out.result]

\* vote runs up to its queries to the token ledger and waits, or fails
VoteEnter(caller, id, vote) ==
    LET out == VoteEnterOutcome(now, caller, id) IN
    /\ pending = NoCall
    /\ Write(out)
    /\ pending' = IF out.result = "Pending"
                  THEN [op |-> "vote", caller |-> caller, id |-> id,
                        vote |-> vote, saved |-> Storage]
                  ELSE NoCall
    /\ last' = [op |-> "vote", caller |-> caller, id |-> id, vote |-> vote,
                result |-> out.result]

\* the queries are answered and the waiting vote runs to its end
VoteReturn ==
    /\ pending # NoCall
    /\ LET out == VoteReturnOutcome(pending.saved, pending.caller, pending.id,
                                    pending.vote) IN
        /\ Write(out)
        /\ last' = [op |-> "vote", caller |-> pending.caller,
                    id |-> pending.id, vote |-> pending.vote,
                    result |-> out.result]
    /\ pending' = NoCall

\* a later block: the timestamp advances
Tick ==
    /\ GtU64(MulU64(TickStep, MaxTicks).value, now)
    /\ now' = AddU64(now, TickStep).value
    /\ last' = NoCall
    /\ UNCHANGED <<proposals, proposal_votes, votes, next_proposal_id, quorum,
                   balance, token_balance, token_shift, overflow_checks, cast,
                   transfers, pending>>

\* PSP22::transfer of the governance token between holders
TokenTransfer(from, to, value) ==
    /\ from # to
    /\ value <= token_balance[from]
    /\ token_balance' = [token_balance EXCEPT ![from] = @ - value,
                                              ![to] = @ + value]
    /\ last' = NoCall
    /\ UNCHANGED <<proposals, proposal_votes, votes, next_proposal_id, quorum,
                   balance, now, token_shift, overflow_checks, cast, transfers,
                   pending>>

\* The proposal lifecycle: several proposals and the clock.  The token ledger
\* stays as minted (alice holds the supply, counted in units of 1), so no sum
\* or product leaves the u8, u64 or u128 range and the build's overflow
\* behaviour is not observable.
InitLifecycle == Init /\ overflow_checks /\ total_supply > 0 /\ token_shift = 0

Next ==
    \/ \E in \in ProposeInputs : Propose(in[1], in[2], in[3])
    \/ \E caller \in Voters, id \in ProposalIds, vote \in VoteTypes :
           Vote(caller, id, vote)
    \/ \E id \in ProposalIds, transfer_ok \in BOOLEAN :
           Execute(id, transfer_ok)
    \/ Tick

Spec == InitLifecycle /\ [][Next]_vars

\* Tallying on one proposal while governance tokens move between holders
NextTally ==
    \/ next_proposal_id = 0 /\ Propose("django", 1, U64(1))
    \/ \E caller \in Accounts, vote \in VoteTypes : Vote(caller, 0, vote)
    \/ \E transfer_ok \in BOOLEAN : Execute(0, transfer_ok)
    \/ \E from \in Accounts, to \in Accounts, value \in 1 .. 3 :
           TokenTransfer(from, to, value)

SpecTally == Init /\ [][NextTally]_vars

\* Votes on one proposal with messages re-entered while a vote waits on the
\* token ledger
InitReentrant == Init /\ token_shift = 0 /\ overflow_checks

NextReentrant ==
    \/ next_proposal_id = 0 /\ pending = NoCall /\ Propose("django", 1, U64(1))
    \/ \E caller \in Voters, vote \in VoteTypes : VoteEnter(caller, 0, vote)
    \/ VoteReturn
    \/ pending # NoCall /\ \E caller \in Voters, vote \in VoteTypes :
                               Vote(caller, 0, vote)
    \/ pending # NoCall /\ \E transfer_ok \in BOOLEAN : Execute(0, transfer_ok)

SpecReentrant == InitReentrant /\ [][NextReentrant]_vars

\* Proposing with every kind of argument, durations out of range included
NextPropose ==
    \/ \E in \in LongProposeInputs : Propose(in[1], in[2], in[3])
    \/ \E id \in ProposalIds, transfer_ok \in BOOLEAN :
           Execute(id, transfer_ok)
    \/ Tick

\* no vote is cast in these runs: the unit of the token amounts is not read
InitPropose == Init /\ token_shift = 0

SpecPropose == InitPropose /\ [][NextPropose]_vars

-----------------------------------------------------------------------------
(* Properties *)

IsCall(l) == l.op \in {"propose", "vote", "execute"}

\* for_votes + against_vote of a proposal in the tally store pvs
TallySum(pvs, id) ==
    IF id \in DOMAIN pvs THEN pvs[id].for_votes + pvs[id].against_vote ELSE 0

\* the sum of the weights the recorded voters of a proposal contributed
CastSum(c, id) == SumOver(c, {k \in DOMAIN c : k[1] = id})

\* C1 as stated: once a (proposal, voter) pair has voted, every later vote of
\* that voter on that proposal fails with AlreadyVoted and leaves the tallies
\* unchanged.
C1_LaterVoteIsAlreadyVoted ==
    [][(last'.op = "vote" /\ <<last'.id, last'.caller>> \in votes)
          => /\ last'.result = "AlreadyVoted"
             /\ proposal_votes' = proposal_votes]_vars

\* C1 amended: once a (proposal, voter) pair has voted, every later vote of that
\* voter on that proposal fails and leaves the tallies and the ledger unchanged;
\* the error is ProposalAlreadyExecuted if the proposal has been executed,
\* otherwise VotePeriodEnded if the period has ended, otherwise AlreadyVoted.
C1_LaterVoteFails ==
    [][(last'.op = "vote" /\ <<last'.id, last'.caller>> \in votes)
          => /\ last'.id \in DOMAIN proposals
             /\ last'.result =
                    IF proposals[last'.id].executed THEN "ProposalAlreadyExecuted"
                    ELSE IF GtU64(now, proposals[last'.id].vote_end)
                         THEN "VotePeriodEnded"
                    ELSE "AlreadyVoted"
             /\ proposal_votes' = proposal_votes
             /\ votes' = votes]_vars

C1_Witness ==
    /\ last.op = "vote"
    /\ last.result = "AlreadyVoted"
    /\ <<last.id, last.caller>> \in votes

\* C2: execute succeeds at most once per proposal: an executed proposal has
\* exactly one transfer, of its amount to its destination, an unexecuted one
\* has none; a successful execute takes the amount from the contract balance,
\* nothing else changes the balance, and execute of an executed proposal
\* fails with ProposalAlreadyExecuted and moves nothing.
C2_ExecuteOnce ==
    [][/\ \A id \in DOMAIN proposals' :
              transfers'[id] =
                  IF proposals'[id].executed
                  THEN << <<proposals'[id].to, proposals'[id].amount>> >>
                  ELSE <<>>
       /\ (last'.op = "execute" /\ last'.result = "Ok")
              => /\ last'.id \in DOMAIN proposals
                 /\ ~proposals[last'.id].executed
                 /\ balance' = balance - proposals[last'.id].amount
       /\ ~(last'.op = "execute" /\ last'.result = "Ok")
              => /\ balance' = balance
                 /\ \A id \in DOMAIN transfers : transfers'[id] = transfers[id]
       /\ (/\ last'.op = "execute"
           /\ last'.id \in DOMAIN proposals
           /\ proposals[last'.id].executed)
              => last'.result = "ProposalAlreadyExecuted"]_vars

C2_Witness ==
    /\ last.op = "execute"
    /\ last.result = "ProposalAlreadyExecuted"
    /\ transfers[last.id] = << <<proposals[last.id].to, proposals[last.id].amount>> >>

\* the result C3 gives execute, from the stored tally as unbounded integers
ExpectedExecute(id) ==
    IF id \notin DOMAIN proposals THEN "ProposalNotFound"
    ELSE IF proposals[id].executed THEN "ProposalAlreadyExecuted"
    ELSE IF TallySum(proposal_votes, id) < quorum THEN "QuorumNotReached"
    ELSE IF GetVotes(id).for_votes < GetVotes(id).against_vote
         THEN "ProposalNotAccepted"
    ELSE IF ~(balance > proposals[id].amount) THEN "InsufficientBalance"
    ELSE "Ok"

\* C3 as stated: with a working transfer primitive, execute returns the error
\* of the first failing condition in the order ProposalNotFound,
\* ProposalAlreadyExecuted, QuorumNotReached (for + against < quorum),
\* ProposalNotAccepted (for < against), InsufficientBalance (balance <= amount),
\* and succeeds when none fails, for every reachable tally.
C3_ExecuteDecision ==
    [][(last'.op = "execute" /\ last'.transfer_ok)
          => last'.result = ExpectedExecute(last'.id)]_vars

\* C4: a propose, vote or execute that returns an error leaves the proposal
\* store, the tallies, the vote ledger, next_proposal_id and the contract
\* balance as they were.
C4_ErrorsChangeNothing ==
    [][(IsCall(last') /\ last'.result \in Errors)
          => UNCHANGED <<proposals, proposal_votes, votes, next_proposal_id,
                         balance>>]_vars

C4_Witness ==
    /\ last.op = "execute"
    /\ last.result = "InsufficientBalance"
    /\ \E id \in DOMAIN proposals : proposals[id].executed

\* C5: propose fails with AmountShouldNotBeZero when amount = 0, otherwise with
\* InsufficientBalance when amount >= balance, otherwise with DurationError
\* when duration = 0.
C5_ProposeCheckOrder ==
    [][last'.op = "propose"
          => /\ last'.amount = 0 => last'.result = "AmountShouldNotBeZero"
             /\ (last'.amount # 0 /\ last'.amount >= balance)
                    => last'.result = "InsufficientBalance"
             /\ (last'.amount # 0 /\ last'.amount < balance
                                  /\ last'.duration = U64(0))
                    => last'.result = "DurationError"]_vars

C5_Witness ==
    /\ last.op = "propose"
    /\ last.amount >= balance
    /\ last.duration = U64(0)
    /\ last.result = "InsufficientBalance"

\* C6 as stated: every propose with amount > 0, amount < balance and
\* duration > 0 succeeds, stores {to, amount, vote_start = now,
\* vote_end = now + duration * 60, executed = false} under the pre-call
\* next_proposal_id and adds one to next_proposal_id; the sum and the product
\* are those of the integers, so neither leaves the u64 range.
C6_ValidProposeStores ==
    [][(/\ last'.op = "propose"
        /\ last'.amount > 0
        /\ last'.amount < balance
        /\ last'.duration # U64(0))
          => LET prod == MulU64(last'.duration, ONE_MINUTE)
                 end == AddU64(now, prod.value)
             IN  /\ last'.result = "Ok"
                 /\ ~prod.overflow /\ ~end.overflow
                 /\ next_proposal_id' = next_proposal_id + 1
                 /\ proposals' =
                        (next_proposal_id :>
                            [to |-> last'.to, amount |-> last'.amount,
                             vote_start |-> now, vote_end |-> end.value,
                             executed |-> FALSE]) @@ proposals]_vars

\* C7: vote returns ProposalNotFound for an unknown id, else
\* ProposalAlreadyExecuted for an executed proposal (whatever the time and the
\* ledger), else VotePeriodEnded when now > vote_end, else AlreadyVoted when
\* the caller is in the ledger; a vote at now <= vote_end, now = vote_end
\* included, by a caller not in the ledger passes every check.
C7_VoteCheckOrder ==
    [][last'.op = "vote"
          => IF last'.id \notin DOMAIN proposals
             THEN last'.result = "ProposalNotFound"
             ELSE IF proposals[last'.id].executed
             THEN last'.result = "ProposalAlreadyExecuted"
             ELSE IF GtU64(now, proposals[last'.id].vote_end)
             THEN last'.result = "VotePeriodEnded"
             ELSE IF <<last'.id, last'.caller>> \in votes
             THEN last'.result = "AlreadyVoted"
             ELSE last'.result \notin Errors]_vars

C7_Witness ==
    /\ last.op = "vote"
    /\ last.result = "Ok"
    /\ proposals[last.id].vote_end = now
    /\ <<last.id, last.caller>> \in votes

\* C8 as stated: for every proposal for_votes + against_vote equals the sum of
\* the weights its recorded voters contributed, and neither for_votes nor
\* against_vote ever decreases.
C8_TallyIsSumOfCastWeights ==
    [][/\ \A id \in DOMAIN proposals' :
              TallySum(proposal_votes', id) = CastSum(cast', id)
       /\ \A id \in DOMAIN proposal_votes :
              /\ id \in DOMAIN proposal_votes'
              /\ proposal_votes'[id].for_votes >= proposal_votes[id].for_votes
              /\ proposal_votes'[id].against_vote
                     >= proposal_votes[id].against_vote]_vars

\* C9: a stored proposal is never deleted, its to, amount, vote_start and
\* vote_end never change, and its executed flag changes only from false to
\* true, by a successful execute of that proposal.
C9_ProposalRecordsStable ==
    [][\A id \in DOMAIN proposals :
          /\ id \in DOMAIN proposals'
          /\ proposals'[id].to = proposals[id].to
          /\ proposals'[id].amount = proposals[id].amount
          /\ proposals'[id].vote_start = proposals[id].vote_start
          /\ proposals'[id].vote_end = proposals[id].vote_end
          /\ proposals[id].executed => proposals'[id].executed
          /\ proposals'[id].executed # proposals[id].executed
                 => /\ last'.op = "execute"
                    /\ last'.id = id
                    /\ last'.result = "Ok"]_vars

C9_Witness ==
    /\ last.op = "propose"
    /\ last.result = "Ok"
    /\ \E id \in DOMAIN proposals :
           proposals[id].executed /\ id < next_proposal_id - 1

\* C10: what an execute call returns and writes is what it would return and
\* write at any other block timestamp, before or after vote_end.
C10_ExecuteIgnoresClock ==
    [][last'.op = "execute"
          => \A t \in Timestamps :
                 ExecuteOutcome(t, last'.id, last'.transfer_ok) =
                     [result |-> last'.result,
                      st |-> [proposals |-> proposals',
                              proposal_votes |-> proposal_votes',
                              votes |-> votes',
                              next_proposal_id |-> next_proposal_id',
                              balance |-> balance',
                              cast |-> cast',
                              transfers |-> transfers']]]_vars

\* a proposal executed while its voting period is still open
C10_Witness ==
    /\ last.op = "execute"
    /\ last.result = "Ok"
    /\ ~GtU64(now, proposals[last.id].vote_end)
    /\ proposals[last.id].executed

\* the ledger holds no vote on proposal id
Unvoted(id) == \A k \in votes : k[1] # id

\* C11: a proposal on which nobody has voted has no tally record, and an
\* execute of it while it is unexecuted fails with QuorumNotReached when
\* quorum > 0; when quorum = 0, the contract balance exceeds the amount and the
\* transfer primitive works, it succeeds, the balance decreases by exactly the
\* amount and executed becomes true.
C11_UnvotedExecute ==
    [][/\ \A id \in DOMAIN proposals' :
              (\A k \in votes' : k[1] # id) => id \notin DOMAIN proposal_votes'
       /\ (/\ last'.op = "execute"
           /\ last'.id \in DOMAIN proposals
           /\ ~proposals[last'.id].executed
           /\ Unvoted(last'.id))
              => /\ quorum > 0 => /\ last'.result = "QuorumNotReached"
                                  /\ ~proposals'[last'.id].executed
                                  /\ balance' = balance
                 /\ (/\ quorum = 0
                     /\ balance > proposals[last'.id].amount
                     /\ last'.transfer_ok)
                        => /\ last'.result = "Ok"
                           /\ balance' = balance - proposals[last'.id].amount
                           /\ proposals'[last'.id].executed]_vars

\* an unvoted proposal executed at once under quorum 0
C11_Witness ==
    /\ last.op = "execute"
    /\ last.result = "Ok"
    /\ quorum = 0
    /\ Unvoted(last.id)
    /\ last.id \notin DOMAIN proposal_votes
    /\ proposals[last.id].executed

\* C12 as stated: the accumulators never wrap around: a successful vote leaves
\* the chosen side's tally at its previous value plus the voter's weight as an
\* unbounded integer sum, and execute of an unexecuted proposal answers
\* QuorumNotReached exactly when the unbounded sum for_votes + against_vote is
\* below quorum.
C12_NoSilentWraparound ==
    [][/\ (last'.op = "vote" /\ last'.result = "Ok")
              => LET pv == GetVotes(last'.id)
                     weight == cast'[<<last'.id, last'.caller>>]
                 IN  IF last'.vote = "For"
                     THEN proposal_votes'[last'.id].for_votes
                              = pv.for_votes + weight
                     ELSE proposal_votes'[last'.id].against_vote
                              = pv.against_vote + weight
       /\ (/\ last'.op = "execute"
           /\ last'.id \in DOMAIN proposals
           /\ ~proposals[last'.id].executed)
              => (last'.result = "QuorumNotReached"
                     <=> TallySum(proposal_votes, last'.id) < quorum)]_vars

\* C13 as stated: the weight a successful vote adds is
\* floor(balance_of(caller) * 100 / total_supply()) on the token ledger as it is
\* at that vote, within 0 .. 100 when the caller's balance is at most a
\* positive supply; and nothing but a successful vote (no token transfer, no
\* other call) changes a tally or a weight already added.
C13_WeightAtVoteTime ==
    [][/\ (last'.op = "vote" /\ last'.result = "Ok")
              => LET weight == cast'[<<last'.id, last'.caller>>]
                 IN  /\ total_supply > 0
                     /\ weight = (balance_of(last'.caller) * 100)
                                     \div total_supply
                     /\ balance_of(last'.caller) <= total_supply
                            => weight \in 0 .. 100
       /\ ~(last'.op = "vote" /\ last'.result = "Ok")
              => /\ proposal_votes' = proposal_votes
                 /\ cast' = cast
       /\ \A k \in DOMAIN cast : k \in DOMAIN cast' /\ cast'[k] = cast[k]]_vars

\* C14: execute sets executed only with a transfer that succeeded: an execute
\* whose transfer primitive fails does not succeed, leaves the proposal
\* unexecuted and the balance and every store as they were, and when it failed
\* at the transfer the same execute with a working primitive succeeds from the
\* state it leaves; a flag that turns true comes with one more transfer of the
\* proposal's amount to its destination.
C14_FlagAfterTransfer ==
    [][/\ (last'.op = "execute" /\ ~last'.transfer_ok)
              => /\ last'.result # "Ok"
                 /\ UNCHANGED <<proposals, proposal_votes, votes,
                                next_proposal_id, balance, transfers>>
                 /\ last'.result = "Trap"
                        => /\ ~proposals'[last'.id].executed
                           /\ ExecuteOutcome(now, last'.id, TRUE).result = "Ok"
       /\ \A id \in DOMAIN proposals :
              (proposals'[id].executed /\ ~proposals[id].executed)
                  => /\ transfers'[id] =
                            Append(transfers[id],
                                   <<proposals[id].to, proposals[id].amount>>)
                     /\ balance' = balance - proposals[id].amount]_vars

\* an execute that failed at the transfer and left the proposal unexecuted
C14_Witness ==
    /\ last.op = "execute"
    /\ ~last.transfer_ok
    /\ last.result = "Trap"
    /\ ~proposals[last.id].executed
    /\ transfers[last.id] = <<>>

\* C15: the ids with a stored proposal are exactly 0 .. next_proposal_id - 1;
\* next_proposal_id never decreases and changes only by +1, on a successful
\* propose; a successful propose stores its proposal under an id that had
\* none and leaves every other id's proposal in place.
C15_SequentialIds ==
    [][/\ DOMAIN proposals' = 0 .. (next_proposal_id' - 1)
       /\ next_proposal_id' >= next_proposal_id
       /\ next_proposal_id' # next_proposal_id
              => /\ next_proposal_id' = next_proposal_id + 1
                 /\ last'.op = "propose" /\ last'.result = "Ok"
       /\ (last'.op = "propose" /\ last'.result = "Ok")
              => /\ next_proposal_id' = next_proposal_id + 1
                 /\ next_proposal_id \notin DOMAIN proposals
                 /\ DOMAIN proposals' = DOMAIN proposals \cup {next_proposal_id}
                 /\ proposals'[next_proposal_id].to = last'.to
                 /\ proposals'[next_proposal_id].amount = last'.amount
                 /\ \A id \in DOMAIN proposals :
                        proposals'[id].to = proposals[id].to
                        /\ proposals'[id].amount = proposals[id].amount]_vars

\* two different proposals stored under the ids 0 and 1
C15_Witness ==
    /\ last.op = "propose"
    /\ last.result = "Ok"
    /\ next_proposal_id = 2
    /\ DOMAIN proposals = {0, 1}
    /\ proposals[0].to # proposals[1].to

\* C16 as stated: every stored proposal has amount > 0 and vote_end >
\* vote_start, and a propose that stores one sets vote_end to the integer
\* vote_start + duration * 60, which therefore stays within the u64 range.
C16_StoredProposalWellFormed ==
    [][/\ \A id \in DOMAIN proposals' :
              /\ proposals'[id].amount > 0
              /\ GtU64(proposals'[id].vote_end, proposals'[id].vote_start)
       /\ (last'.op = "propose" /\ last'.result = "Ok")
              => LET prod == MulU64(last'.duration, ONE_MINUTE)
                     end == AddU64(now, prod.value)
                 IN  /\ ~prod.overflow /\ ~end.overflow
                     /\ proposals'[next_proposal_id].vote_start = now
                     /\ proposals'[next_proposal_id].vote_end = end.value]_vars

\* C17: when a vote starts waiting on its token ledger queries its
\* (proposal, caller) record is in the vote ledger and no weight has been added;
\* a vote of the same caller on the same proposal processed while it waits
\* adds no weight and changes no tally, and fails with AlreadyVoted (the
\* proposal being unexecuted, as it was when the first call tested it); and
\* the weight of a (proposal, caller) pair is added at most once: an added
\* weight is never added again or replaced, and each tally is the sum of the
\* weights added.
C17_LedgerWrittenBeforeQueries ==
    [][/\ (pending = NoCall /\ pending' # NoCall)
              => /\ <<pending'.id, pending'.caller>> \in votes'
                 /\ <<pending'.id, pending'.caller>> \notin DOMAIN cast'
                 /\ proposal_votes' = proposal_votes
       /\ (/\ pending # NoCall
           /\ pending' = pending
           /\ last'.op = "vote"
           /\ last'.id = pending.id
           /\ last'.caller = pending.caller)
              => /\ last'.result \in Errors
                 /\ ~proposals[pending.id].executed
                        => last'.result = "AlreadyVoted"
                 /\ proposal_votes' = proposal_votes
                 /\ cast' = cast
       /\ (last'.op = "vote" /\ last'.result = "Ok")
              => <<last'.id, last'.caller>> \notin DOMAIN cast
       /\ \A k \in DOMAIN cast \cap DOMAIN cast' : cast'[k] = cast[k]
       /\ \A id \in DOMAIN proposals' :
              TallySum(proposal_votes', id) = CastSum(cast', id)]_vars

\* a vote of the waiting caller on the same proposal was refused
C17_Witness ==
    /\ pending # NoCall
    /\ last.op = "vote"
    /\ last.result = "AlreadyVoted"
    /\ last.id = pending.id
    /\ last.caller = pending.caller
    /\ <<pending.id, pending.caller>> \notin DOMAIN cast

\* the tally of a proposal in the tally store pvs, zero when it has no record
TallyOf(pvs, id) == IF id \in DOMAIN pvs THEN pvs[id] ELSE DefaultVote

\* C18: every executed proposal has a tally with for_votes + against_vote >=
\* quorum and for_votes >= against_vote, and no call changes the tally or the
\* vote records of an executed proposal.
C18_ExecutedHasQuorumAndMajority ==
    [][/\ \A id \in DOMAIN proposals' :
              proposals'[id].executed
                  => /\ TallySum(proposal_votes', id) >= quorum
                     /\ TallyOf(proposal_votes', id).for_votes
                            >= TallyOf(proposal_votes', id).against_vote
       /\ \A id \in DOMAIN proposals :
              proposals[id].executed
                  => /\ TallyOf(proposal_votes', id) = TallyOf(proposal_votes, id)
                     /\ {k \in votes' : k[1] = id} = {k \in votes : k[1] = id}]_vars

\* a vote on an executed proposal that carries votes was refused
C18_Witness ==
    /\ last.op = "vote"
    /\ last.result = "ProposalAlreadyExecuted"
    /\ <<last.id, last.caller>> \notin votes
    /\ proposals[last.id].executed
    /\ TallySum(proposal_votes, last.id) >= quorum
    /\ quorum > 0

\* C19: the clock never goes back, and from the moment the time has passed a
\* proposal's vote_end, or the proposal is executed, no step changes its tally
\* or its vote records; an execute of an unexecuted proposal past its vote_end
\* whose tally is below quorum or has for_votes < against_vote fails and
\* leaves it unexecuted, so with its tally frozen it is never executed.
C19_TallyFrozenAfterEnd ==
    [][/\ ~GtU64(now, now')
       /\ quorum' = quorum
       /\ \A id \in DOMAIN proposals :
              (GtU64(now, proposals[id].vote_end) \/ proposals[id].executed)
                  => /\ TallyOf(proposal_votes', id) = TallyOf(proposal_votes, id)
                     /\ {k \in votes' : k[1] = id} = {k \in votes : k[1] = id}
                     /\ GtU64(now', proposals'[id].vote_end)
                            \/ proposals'[id].executed
       /\ \A id \in DOMAIN proposals :
              (/\ ~proposals[id].executed
               /\ GtU64(now, proposals[id].vote_end)
               /\ \/ TallySum(proposal_votes, id) < quorum
                  \/ TallyOf(proposal_votes, id).for_votes
                         < TallyOf(proposal_votes, id).against_vote)
                  => /\ ~proposals'[id].executed
                     /\ (last'.op = "execute" /\ last'.id = id)
                            => last'.result \in {"QuorumNotReached",
                                                 "ProposalNotAccepted"}]_vars

\* a proposal voted down, refused by execute after its window has closed
C19_Witness ==
    /\ last.op = "execute"
    /\ last.result = "ProposalNotAccepted"
    /\ GtU64(now, proposals[last.id].vote_end)
    /\ \E k \in votes : k[1] = last.id
    /\ ~proposals[last.id].executed

\* C20: the contract balance stays above zero; a successful execute leaves it
\* at the pre-call balance minus the proposal's amount, no other step changes
\* it; and an execute that passes the quorum and majority tests with a balance
\* not above the amount fails with InsufficientBalance and leaves the proposal
\* unexecuted, as happens once accepted proposals ask for more than is left.
C20_BalanceNeverEmptied ==
    [][/\ balance' > 0
       /\ IF last'.op = "execute" /\ last'.result = "Ok"
          THEN /\ balance' = balance - proposals[last'.id].amount
               /\ balance > proposals[last'.id].amount
          ELSE balance' = balance
       /\ (/\ last'.op = "execute"
           /\ last'.id \in DOMAIN proposals
           /\ ~proposals[last'.id].executed
           /\ TallySum(proposal_votes, last'.id) >= quorum
           /\ TallyOf(proposal_votes, last'.id).for_votes
                  >= TallyOf(proposal_votes, last'.id).against_vote
           /\ balance <= proposals[last'.id].amount)
              => /\ last'.result = "InsufficientBalance"
                 /\ ~proposals'[last'.id].executed]_vars

\* two proposals asking together for more than the contract held: one was
\* executed, the other is refused for lack of funds
C20_Witness ==
    /\ last.op = "execute"
    /\ last.result = "InsufficientBalance"
    /\ ~proposals[last.id].executed
    /\ \E id \in DOMAIN proposals :
           /\ proposals[id].executed
           /\ proposals[id].amount + proposals[last.id].amount
                  > balance + proposals[id].amount
    /\ balance > 0

=============================================================================
